---- MODULE Spec2Model ----
(***************************************************************************)
(* Model of the BellaLui host-board protocol engine:                       *)
(*   - the telemetry scheduler   (telemetry/telemetry_handling.cpp)        *)
(*   - the datagram builder      (telemetry/datagram_builder.cpp)          *)
(*   - the message bus           (communication/message_bus.cpp)           *)
(* The specifications of the module: Spec (telemetry producers on several  *)
(* tasks, the outbound queue and its consumer), SpecSeq and SpecSeqFair    *)
(* (one producer task), SpecBuilder (one DatagramBuilder), SpecBus (one    *)
(* MessageBus) and SpecOrder (the order-packet decoder).                   *)
(***************************************************************************)
EXTENDS Integers, Sequences, FiniteSets, TLC

(***************************************************************************)
(* Bounds of the model                                                     *)
(***************************************************************************)
\* number of data-ready calls that may pass the interval check
MaxSends == 2
\* capacity of the outbound queue xBeeQueueHandle (defined outside src/)
QueueCap == 1

(***************************************************************************)
(* Program constants                                                       *)
(***************************************************************************)
TELE_TIMEMIN == 20
GPS_TIMEMIN == 100
MOTOR_TIMEMIN == 100
WARNING_TIMEMIN == 50
AB_TIMEMIN == 100
\* uint32_t (ticks, sequence number, packet counter) is two 16-bit halves:
\* x < 2^32 iff x \div Two16 < Two16
Two16 == 65536
\* the null pointer
NULL == 0

(***************************************************************************)
(* Telemetry scheduler: state                                              *)
(***************************************************************************)
\* the six entry points telemetry_sendXData, each with its descriptor m1..m6
Entries == {"GPS", "IMU", "BARO", "MOTOR", "WARN", "AB"}
Categories == {"GPS", "TELE", "MOTOR", "WARN", "AB"}

\* IMU and baro share last_sensor_update; every other entry has its own tick
Category(e) == IF e \in {"IMU", "BARO"} THEN "TELE" ELSE e

\* mutant: the sensor category compared against the GPS interval
TIMEMIN_Swapped(c) ==
  CASE c = "TELE" -> GPS_TIMEMIN
    [] c = "GPS" -> GPS_TIMEMIN
    [] c = "MOTOR" -> MOTOR_TIMEMIN
    [] c = "WARN" -> WARNING_TIMEMIN
    [] c = "AB" -> AB_TIMEMIN

TIMEMIN(c) ==
  CASE c = "TELE" -> TELE_TIMEMIN
    [] c = "GPS" -> GPS_TIMEMIN
    [] c = "MOTOR" -> MOTOR_TIMEMIN
    [] c = "WARN" -> WARNING_TIMEMIN
    [] c = "AB" -> AB_TIMEMIN

\* values HAL_GetTick can return in the model (the clock only moves forward)
TickVals == {0, 5, 20, 21, 25, 50, 51, 100, 101}

VARIABLES
  tick,                \* HAL_GetTick()
  last_update,         \* per category: last_update / last_sensor_update / ...
  telemetrySeqNumber,  \* global sequence number
  Packet_Number,       \* global packet counter
  m,                   \* per entry: the global descriptor m1..m6 (its .ptr)
  pc,                  \* per entry: position of the call
  now,                 \* per entry: local `now`
  seqArg,              \* per entry: value loaded by telemetrySeqNumber++
  pnArg,               \* per entry: value loaded by Packet_Number++
  builderPtr,          \* per entry: DatagramBuilder::datagramPtr of the call
  xBeeQueue,           \* outbound queue: descriptor addresses (+ ghost buffer)
  heap,                \* ghost: per buffer pvPortMalloc returned: "live" or who freed it
  faults,              \* ghost: heap misuse events
  passed,              \* ghost: number of calls that passed the check
  sendLog,             \* ghost: the queue submissions, in order
  ret,                 \* ghost: entry and value of the most recent return
  script,              \* ghost: progress of the IMU call script 0, 5, 25
  arg,                 \* per entry: the sensor value the caller passed
  fields               \* per entry: the payload fields written so far

telemetryVars ==
  <<tick, last_update, telemetrySeqNumber, Packet_Number, m, pc, now, seqArg,
    pnArg, builderPtr, xBeeQueue, heap, faults, passed, sendLog, ret, script,
    arg, fields>>

(***************************************************************************)
(* Datagram builder: state                                                 *)
(***************************************************************************)
VARIABLES
  bState,        \* "none" before the constructor, "open", "final" after finalize
  datagramSize,  \* DatagramBuilder::datagramSize (uint16_t)
  currentIdx,    \* DatagramBuilder::currentIdx
  datagramPtr,   \* DatagramBuilder::datagramPtr: NULL or the buffer
  datagramCrc,   \* DatagramBuilder::datagramCrc: the bytes fed to the CRC so far
  buffer,        \* bytes written through datagramPtr, offset i at buffer[i + 1]
  message,       \* the Telemetry_Message finalizeDatagram returned
  nwrites,       \* ghost: number of write calls made by the caller
  lastW,         \* ghost: size of the last write call and the cursor before it
  badAccess      \* ghost: reads the build does not define

builderVars ==
  <<bState, datagramSize, currentIdx, datagramPtr, datagramCrc, buffer, message,
    nwrites, lastW, badAccess>>

(***************************************************************************)
(* Message bus: state                                                      *)
(***************************************************************************)
VARIABLES
  lock,                 \* MessageBus::lock
  identifiers,          \* type hash -> identifier, as pairs <<kind, id>>
  safe_cast_reference,  \* identifier -> expected payload length (uint8_t)
  handlers,             \* the multimap, in iteration order: <<id, handler>>
  invoked,              \* handler table entries the last receive invoked
  rx,                   \* ghost: the last receive call
  wire,                 \* bytes the last call handed to write(): id and count
  regLog,               \* ghost: <<id, handler>> in registration order
  nobjects,             \* ghost: number of register_object calls
  misuse,               \* ghost: the configuration error of the last call, or "none"
  outcome               \* what the last call gave back to its caller

busVars ==
  <<lock, identifiers, safe_cast_reference, handlers, invoked, rx, wire, regLog,
    nobjects, misuse, outcome>>

(***************************************************************************)
(* Order-packet decoder: state                                             *)
(***************************************************************************)
VARIABLES
  current_state,  \* the global current_state
  order,          \* ghost: RX_Order_Packet[8] of the last order packet
  canFrame,       \* the arguments of the last can_setFrame call
  decoded         \* ghost: <<command byte, resulting state>> of the cases taken

orderVars == <<current_state, order, canFrame, decoded>>

vars == <<telemetryVars, builderVars, busVars, orderVars>>

\* the payload of a datagram under construction: time stamp and value field
NoFields == [ts |-> 0, val |-> 0]

InitTelemetry ==
  /\ tick = 0
  /\ last_update = [c \in Categories |-> 0]
  /\ telemetrySeqNumber = 0
  /\ Packet_Number = 0
  /\ m = [e \in Entries |-> NULL]
  /\ pc = [e \in Entries |-> "idle"]
  /\ now = [e \in Entries |-> 0]
  /\ seqArg = [e \in Entries |-> 0]
  /\ pnArg = [e \in Entries |-> 0]
  /\ builderPtr = [e \in Entries |-> NULL]
  /\ xBeeQueue = <<>>
  /\ heap = <<>>
  /\ faults = {}
  /\ passed = 0
  /\ sendLog = <<>>
  /\ ret = [entry |-> "none", value |-> FALSE]
  /\ script = 0
  /\ arg = [e \in Entries |-> 0]
  /\ fields = [e \in Entries |-> NoFields]

\* symbolic bytes: an indeterminate byte, and the two bytes write16 stores for
\* the finalized CRC of the bytes in datagramCrc
GARBAGE == -1
CRC_HI == -2
CRC_LO == -3

InitBuilder ==
  /\ bState = "none"
  /\ datagramSize = 0
  /\ currentIdx = 0
  /\ datagramPtr = NULL
  /\ datagramCrc = <<GARBAGE>>
  /\ buffer = <<>>
  /\ message = [ptr |-> NULL, size |-> 0]
  /\ nwrites = 0
  /\ lastW = [n |-> 0, at |-> 0]
  /\ badAccess = {}

\* identifiers the model registers and receives
IdVals == {0, 255}
\* what an entry of safe_cast_reference may hold before anything is registered
\* for it (the constructor does not initialise the table)
InitLens == {0, 1}

InitBus ==
  /\ lock = FALSE
  /\ identifiers = {}
  /\ safe_cast_reference \in [IdVals -> InitLens]
  /\ handlers = <<>>
  /\ invoked = <<>>
  /\ rx = [id |-> 0, len |-> -1, expected |-> 0, registered |-> <<>>]
  /\ wire = <<>>
  /\ regLog = <<>>
  /\ nobjects = 0
  /\ misuse = "none"
  /\ outcome = "void"

\* one initial safe_cast_reference for the specifications that do not use the bus
InitBusQuiet == InitBus /\ safe_cast_reference = [i \in IdVals |-> 0]

InitOrder ==
  /\ current_state = "STATE_IDLE"
  /\ order = "none"
  /\ canFrame = [value |-> "none", id |-> "none", ts |-> 0]
  /\ decoded = {}

Init ==
  /\ InitTelemetry
  /\ InitBuilder
  /\ InitBusQuiet
  /\ InitOrder

\* mutant: the counter advances by two
Inc32Twice(x) == x + 2

\* x + 1 in uint32_t
Inc32(x) == IF x \div Two16 = Two16 - 1 /\ x % Two16 = Two16 - 1 THEN 0 ELSE x + 1

\* n - last > min in uint32_t arithmetic: when n < last the difference wraps
\* to 2^32 - (last - n), which exceeds min iff (last - n) + min < 2^32
ElapsedExceeds(n, last, min) ==
  IF n >= last THEN n - last > min
  ELSE ((last - n) + min) \div Two16 < Two16

\* mutant: >= in place of >
IntervalPassedAtLeast(e) ==
  \/ ElapsedExceeds(tick, last_update[Category(e)], TIMEMIN(Category(e)))
  \/ tick - last_update[Category(e)] = TIMEMIN(Category(e))

\* the interval check of every entry point, on the tick read at entry
IntervalPassed(e) ==
  ElapsedExceeds(tick, last_update[Category(e)], TIMEMIN(Category(e)))

\* ghost: progress through the calls of telemetry_sendIMUData at ticks 0, 5, 25
\* made from the initial state; 4 = any other call of the category was made
ScriptStep(e, t) ==
  IF Category(e) # "TELE" THEN script
  ELSE IF e = "IMU" /\ script = 0 /\ t = 0 THEN 1
  ELSE IF e = "IMU" /\ script = 1 /\ t = 5 THEN 2
  ELSE IF e = "IMU" /\ script = 2 /\ t = 25 THEN 3
  ELSE 4

\* sensor values the callers pass (none of them is a tick value)
DataVals == {7}
\* what can_getABangle() returns
ABangle == 3

\* uint32_t -> float32_t: the nearest value with a 24-bit significand, ties to
\* even (exact below 2^24)
RECURSIVE RoundTo24(_, _)
RoundTo24(n, unit) ==
  IF n \div unit < 16777216
    THEN LET q == n \div unit
             r == n % unit
             up == 2 * r > unit \/ (2 * r = unit /\ q % 2 = 1)
         IN (IF up THEN q + 1 ELSE q) * unit
    ELSE RoundTo24(n, 2 * unit)
ToFloat32(n) == RoundTo24(n, 1)

\* the time_stamp the send path hands to createXDatagram, which writes it as
\* the first payload field: telemetry_sendMotorPressureData passes
\* (pressure, now, seq) to (time_stamp, pressure, seqNumber); createGPSDatagram
\* takes no time stamp and writes HAL_GetTick () instead
TimeStampField(e) ==
  CASE e = "MOTOR" -> arg[e]
    [] e = "GPS" -> tick
    [] OTHER -> now[e]

\* the value field(s) written after the packet number: the caller's sample
\* (IMU and baro samples go through the globals imu / baro of the same call),
\* for the motor packet the float32_t parameter `pressure`, which received
\* `now`, for the airbrakes packet can_getABangle()
ValueField(e) ==
  CASE e = "MOTOR" -> ToFloat32(now[e])
    [] e = "AB" -> ABangle
    [] OTHER -> arg[e]

(***************************************************************************)
(* Telemetry scheduler: steps                                              *)
(***************************************************************************)
\* the tick counter advances between any two steps
HAL_IncTick ==
  /\ \E t \in TickVals : t > tick /\ tick' = t
  /\ UNCHANGED <<last_update, telemetrySeqNumber, Packet_Number, m, pc, now,
                 seqArg, pnArg, builderPtr, xBeeQueue, heap, faults, passed,
                 sendLog, ret, script>>
  /\ UNCHANGED <<arg, fields>>
  /\ UNCHANGED <<builderVars, busVars, orderVars>>

\* entry: uint32_t now = HAL_GetTick(); bool handled = false;
\* (the cached samples imu / baro and the payload fields are not part of the
\* state: the scheduler model follows the buffer, the counters and the ticks)
\* if (now - last_update > TIMEMIN): when false, return handled (false);
\* when true, the argument telemetrySeqNumber++ loads the sequence number
Call(e) ==
  /\ pc[e] = "idle"
  /\ passed < MaxSends
  /\ script' = ScriptStep(e, tick)
  /\ IF IntervalPassed(e)
       THEN /\ now' = [now EXCEPT ![e] = tick]
            /\ seqArg' = [seqArg EXCEPT ![e] = telemetrySeqNumber]
            /\ \E d \in DataVals : arg' = [arg EXCEPT ![e] = d]
            /\ pc' = [pc EXCEPT ![e] = "build"]
            /\ passed' = passed + 1
            /\ UNCHANGED ret
       ELSE /\ ret' = [entry |-> e, value |-> FALSE]
            /\ UNCHANGED <<now, seqArg, arg, pc, passed>>
  /\ UNCHANGED fields
  /\ UNCHANGED <<tick, last_update, telemetrySeqNumber, Packet_Number, m,
                 pnArg, builderPtr, xBeeQueue, heap, faults, sendLog>>
  /\ UNCHANGED <<builderVars, busVars, orderVars>>

\* telemetrySeqNumber++ stores the incremented value; then the DatagramBuilder
\* constructor inside createXDatagram: pvPortMalloc returns a fresh buffer or
\* NULL
Construct(e) ==
  /\ pc[e] = "build"
  /\ telemetrySeqNumber' = Inc32(seqArg[e])
  /\ \E ok \in BOOLEAN :
       IF ok
         THEN /\ heap' = Append(heap, "live")
              /\ builderPtr' = [builderPtr EXCEPT ![e] = Len(heap) + 1]
         ELSE /\ builderPtr' = [builderPtr EXCEPT ![e] = NULL]
              /\ UNCHANGED heap
  /\ pc' = [pc EXCEPT ![e] = "pn"]
  /\ UNCHANGED <<tick, last_update, Packet_Number, m, now, seqArg, pnArg,
                 xBeeQueue, faults, passed, sendLog, ret, script>>
  /\ fields' = [fields EXCEPT ![e] = [ts |-> TimeStampField(e), val |-> ValueField(e)]]
  /\ UNCHANGED arg
  /\ UNCHANGED <<builderVars, busVars, orderVars>>

\* Packet_Number++ (volatile): the load
LoadPacketNumber(e) ==
  /\ pc[e] = "pn"
  /\ pnArg' = [pnArg EXCEPT ![e] = Packet_Number]
  /\ pc' = [pc EXCEPT ![e] = "pnw"]
  /\ UNCHANGED <<tick, last_update, telemetrySeqNumber, Packet_Number, m, now,
                 seqArg, builderPtr, xBeeQueue, heap, faults, passed, sendLog,
                 ret, script>>
  /\ UNCHANGED <<arg, fields>>
  /\ UNCHANGED <<builderVars, busVars, orderVars>>

\* Packet_Number++: the store; then the remaining fields, finalizeDatagram and
\* the assignment of the returned Telemetry_Message to the global m1..m6
StorePacketNumber(e) ==
  /\ pc[e] = "pnw"
  /\ Packet_Number' = Inc32(pnArg[e])
  /\ m' = [m EXCEPT ![e] = builderPtr[e]]
  /\ pc' = [pc EXCEPT ![e] = "put"]
  /\ UNCHANGED <<tick, last_update, telemetrySeqNumber, now, seqArg, pnArg,
                 builderPtr, xBeeQueue, heap, faults, passed, sendLog, ret,
                 script>>
  /\ UNCHANGED <<arg, fields>>
  /\ UNCHANGED <<builderVars, busVars, orderVars>>

\* osMessagePut (xBeeQueueHandle, (uint32_t) &m, 10): the address of the
\* global descriptor is queued; the put fails when the queue stays full
osMessagePut(e) ==
  /\ pc[e] = "put"
  /\ IF Len(xBeeQueue) < QueueCap
       THEN /\ xBeeQueue' = Append(xBeeQueue, [desc |-> e, buf |-> builderPtr[e]])
            /\ pc' = [pc EXCEPT ![e] = "upd"]
       ELSE /\ pc' = [pc EXCEPT ![e] = "free"]
            /\ UNCHANGED xBeeQueue
  /\ sendLog' = Append(sendLog, [entry |-> e, now |-> now[e], pn |-> pnArg[e],
                                 seq |-> seqArg[e], buf |-> builderPtr[e],
                                 ok |-> Len(xBeeQueue) < QueueCap,
                                 arg |-> arg[e], ts |-> fields[e].ts,
                                 val |-> fields[e].val])
  /\ UNCHANGED <<tick, last_update, telemetrySeqNumber, Packet_Number, m, now,
                 seqArg, pnArg, builderPtr, heap, faults, passed, ret, script>>
  /\ UNCHANGED <<arg, fields>>
  /\ UNCHANGED <<builderVars, busVars, orderVars>>

\* the heap after vPortFree(p) and the misuse it may be (vPortFree(NULL) is a
\* no-op)
FreeHeap(p, who) == IF p # NULL /\ heap[p] = "live" THEN [heap EXCEPT ![p] = who] ELSE heap
FreeFaults(p, who) ==
  IF p # NULL /\ heap[p] # "live" THEN {[kind |-> "double_free", buf |-> p, by |-> who]} ELSE {}

\* vPortFree(m.ptr) when the put failed
vPortFree(e) ==
  /\ pc[e] = "free"
  /\ heap' = FreeHeap(m[e], e)
  /\ faults' = faults \cup FreeFaults(m[e], e)
  /\ pc' = [pc EXCEPT ![e] = "upd"]
  /\ UNCHANGED <<tick, last_update, telemetrySeqNumber, Packet_Number, m, now,
                 seqArg, pnArg, builderPtr, xBeeQueue, passed, sendLog, ret,
                 script>>
  /\ UNCHANGED <<arg, fields>>
  /\ UNCHANGED <<builderVars, busVars, orderVars>>

\* last_update = now; handled = true; return handled;
Update(e) ==
  /\ pc[e] = "upd"
  /\ last_update' = [last_update EXCEPT ![Category(e)] = now[e]]
  /\ ret' = [entry |-> e, value |-> TRUE]
  /\ pc' = [pc EXCEPT ![e] = "idle"]
  /\ now' = [now EXCEPT ![e] = 0]
  /\ seqArg' = [seqArg EXCEPT ![e] = 0]
  /\ pnArg' = [pnArg EXCEPT ![e] = 0]
  /\ builderPtr' = [builderPtr EXCEPT ![e] = NULL]
  /\ UNCHANGED <<tick, telemetrySeqNumber, Packet_Number, m, xBeeQueue, heap,
                 faults, passed, sendLog, script>>
  /\ arg' = [arg EXCEPT ![e] = 0]
  /\ fields' = [fields EXCEPT ![e] = NoFields]
  /\ UNCHANGED <<builderVars, busVars, orderVars>>

\* the consumer of xBeeQueueHandle: takes the oldest entry, reads the
\* descriptor it points to, transmits the buffer and releases it
xBeeConsumer ==
  /\ Len(xBeeQueue) > 0
  /\ LET d == m[Head(xBeeQueue).desc] IN
       /\ heap' = FreeHeap(d, "consumer")
       /\ faults' = faults \cup FreeFaults(d, "consumer")
                      \cup (IF d # NULL /\ heap[d] # "live"
                              THEN {[kind |-> "use_after_free", buf |-> d, by |-> "consumer"]}
                              ELSE {})
  /\ xBeeQueue' = Tail(xBeeQueue)
  /\ UNCHANGED <<tick, last_update, telemetrySeqNumber, Packet_Number, m, pc,
                 now, seqArg, pnArg, builderPtr, passed, sendLog, ret, script>>
  /\ UNCHANGED <<arg, fields>>
  /\ UNCHANGED <<builderVars, busVars, orderVars>>

telemetry_sendData(e) ==
  \/ Call(e)
  \/ Construct(e)
  \/ LoadPacketNumber(e)
  \/ StorePacketNumber(e)
  \/ osMessagePut(e)
  \/ vPortFree(e)
  \/ Update(e)

Next ==
  \/ HAL_IncTick
  \/ \E e \in Entries : telemetry_sendData(e)
  \/ xBeeConsumer

\* producers on several tasks, interleaved at every step
Spec == Init /\ [][Next]_vars

\* a single producer task: a data-ready call runs to its return before the
\* next one starts (the consumer and the clock still interleave)
Alone(e) == \A x \in Entries \ {e} : pc[x] = "idle"

NextSeq ==
  \/ HAL_IncTick
  \/ \E e \in Entries : Alone(e) /\ Call(e)
  \/ \E e \in Entries : Alone(e) /\ Construct(e)
  \/ \E e \in Entries : Alone(e) /\ LoadPacketNumber(e)
  \/ \E e \in Entries : Alone(e) /\ StorePacketNumber(e)
  \/ \E e \in Entries : Alone(e) /\ osMessagePut(e)
  \/ \E e \in Entries : Alone(e) /\ vPortFree(e)
  \/ \E e \in Entries : Alone(e) /\ Update(e)
  \/ xBeeConsumer

SpecSeq == Init /\ [][NextSeq]_vars

\* the steps of a call after its interval check; each returns: pvPortMalloc
\* and vPortFree do not block and osMessagePut gives up after 10 ticks
Progress(e) ==
  \/ Construct(e)
  \/ LoadPacketNumber(e)
  \/ StorePacketNumber(e)
  \/ osMessagePut(e)
  \/ vPortFree(e)
  \/ Update(e)

\* the single producer task keeps running
SpecSeqFair == SpecSeq /\ WF_vars(\E e \in Entries : Alone(e) /\ Progress(e))

(***************************************************************************)
(* Claims about the telemetry scheduler                                    *)
(***************************************************************************)
\* the minimum intervals as the specification lists them
C1_Interval(c) ==
  CASE c = "GPS" -> 100 [] c = "TELE" -> 20 [] c = "MOTOR" -> 100
    [] c = "WARN" -> 50 [] c = "AB" -> 100

\* C1: a data-ready call starts building a datagram (and goes on to the queue
\* submission) if and only if now - last_sent > the category's minimum
\* interval; otherwise it returns false, allocates nothing, builds nothing and
\* leaves last_sent, the sequence number and the packet counter unchanged.
C1_RateLimit ==
  [][\A e \in Entries :
       LET due == tick - last_update[Category(e)] > C1_Interval(Category(e)) IN
         /\ (pc[e] = "idle" /\ pc'[e] # "idle") =>
               (due /\ pc'[e] = "build" /\ now'[e] = tick)
         /\ (pc[e] = "idle" /\ ret' # ret /\ ret'.entry = e) =>
               /\ ~due
               /\ ret'.value = FALSE
               /\ UNCHANGED <<pc, heap, builderPtr, m, xBeeQueue, sendLog,
                              last_update, telemetrySeqNumber, Packet_Number>>
    ]_vars

\* a warning was sent at tick 51 and the next warning call, exactly 50 ticks
\* later, returned false
C1_Witness ==
  /\ ret = [entry |-> "WARN", value |-> FALSE]
  /\ last_update["WARN"] = 51
  /\ tick = 101
  /\ Len(sendLog) = 1
  /\ sendLog[1].entry = "WARN"

\* ticks of the queue submissions of the IMU/baro telemetry category
TeleSendTicks ==
  {sendLog[i].now : i \in {j \in 1..Len(sendLog) : Category(sendLog[j].entry) = "TELE"}}

\* C2 as stated: from the initial state, telemetry_sendIMUData at ticks 0, 5
\* and 25 attempts a send at tick 0 and at tick 25 and at no other tick.
C2_SendsAt0And25 ==
  (script = 3 /\ pc["IMU"] = "idle") => TeleSendTicks = {0, 25}

\* C2 amended: from the initial state (last_sensor_update = 0),
\* telemetry_sendIMUData at ticks 0, 5 and 25 attempts a send at tick 25 and at
\* no other tick.
C2_SendsAt25Only ==
  (script = 3 /\ pc["IMU"] = "idle") => TeleSendTicks = {25}

C2_Witness ==
  /\ script = 3
  /\ pc["IMU"] = "idle"
  /\ ret = [entry |-> "IMU", value |-> TRUE]
  /\ last_update["TELE"] = 25

\* owners of buffer b: the producer that is building or submitting it, and
\* every queued entry whose descriptor points to it
Owners(b) ==
  Cardinality({e \in Entries :
                 pc[e] \in {"pn", "pnw", "put", "free"} /\ builderPtr[e] = b})
    + Cardinality({i \in 1..Len(xBeeQueue) : m[xBeeQueue[i].desc] = b})

\* C3: every datagram buffer has exactly one owner at a time: a queued entry
\* refers to the buffer built by the send that enqueued it, no live buffer is
\* unowned (leaked) or owned twice, none is freed twice or used after free.
C3_SingleOwner ==
  /\ \A i \in 1..Len(xBeeQueue) :
       xBeeQueue[i].buf # NULL => m[xBeeQueue[i].desc] = xBeeQueue[i].buf
  /\ \A b \in 1..Len(heap) : heap[b] = "live" => Owners(b) = 1
  /\ faults = {}

\* C4: a buffer whose submission the queue rejected is released exactly once,
\* by the producer in that call, and is never released or used again; a
\* buffer whose submission was accepted is not released by the producer.
C4_RejectedReleasedOnce ==
  \A i \in 1..Len(sendLog) :
    LET r == sendLog[i] IN
      r.buf # NULL =>
        IF r.ok
          THEN heap[r.buf] \notin Entries
          ELSE /\ \/ pc[r.entry] = "free" /\ builderPtr[r.entry] = r.buf
                  \/ heap[r.buf] = r.entry
               /\ \A f \in faults : f.buf # r.buf

\* C13: with the send paths of several categories interleaved, no increment
\* of the shared packet counter is lost and no two datagrams carry the same
\* packet number: once the n calls that passed the check have returned, the
\* counter has advanced from 0 to n and the n packet numbers are distinct.
C13_NoLostIncrement ==
  (\A e \in Entries : pc[e] = "idle") =>
    /\ Packet_Number = Len(sendLog)
    /\ \A i, j \in 1..Len(sendLog) : i # j => sendLog[i].pn # sendLog[j].pn

\* C18: any two send attempts of the IMU/baro category are more than
\* TELE_TIMEMIN = 20 ticks apart, in every interleaving of the IMU and the baro
\* producer.
C18_SensorSendsApart ==
  \A i, j \in 1..Len(sendLog) :
    (i < j /\ Category(sendLog[i].entry) = "TELE" /\ Category(sendLog[j].entry) = "TELE") =>
      \/ sendLog[j].now - sendLog[i].now > 20
      \/ sendLog[i].now - sendLog[j].now > 20

\* the positions a call goes through after the interval check, in order
C14_Order(p) ==
  CASE p = "build" -> 1 [] p = "pn" -> 2 [] p = "pnw" -> 3 [] p = "put" -> 4
    [] p = "free" -> 5 [] p = "upd" -> 6 [] p = "idle" -> 7

\* C14: a call that passed the interval check makes one queue submission and,
\* whether the queue accepted it and whether the allocation succeeded, sets
\* last_sent to the tick read at entry, advances the sequence number by one
\* and returns true; it never goes back to an earlier step (no retry) and
\* always returns (the call never stays pending).
C14_AttemptCompletes ==
  /\ [][\A e \in Entries :
          /\ (pc[e] = "idle" /\ pc'[e] # "idle") =>
                (now'[e] = tick /\ seqArg'[e] = telemetrySeqNumber)
          /\ (pc[e] # "idle" /\ pc'[e] # "idle") =>
                (now'[e] = now[e] /\ seqArg'[e] = seqArg[e])
          /\ (pc[e] # "idle" /\ pc'[e] # pc[e]) =>
                C14_Order(pc'[e]) > C14_Order(pc[e])
          /\ (pc[e] = "put" /\ pc'[e] # "put") <=>
                (pc[e] # "idle" /\ sendLog' # sendLog)
          /\ (pc[e] = "upd" /\ pc'[e] = "idle") =>
                /\ last_update'[Category(e)] = now[e]
                /\ telemetrySeqNumber' = seqArg[e] + 1
                /\ ret' = [entry |-> e, value |-> TRUE]
       ]_vars
  /\ (\E e \in Entries : pc[e] # "idle") ~>
       (ret.value = TRUE /\ \A e \in Entries : pc[e] = "idle")

\* a call whose buffer allocation failed and whose submission the queue
\* rejected has returned true with last_sent and the sequence number updated
C14_Witness ==
  /\ \A e \in Entries : pc[e] = "idle"
  /\ Len(sendLog) = 2
  /\ sendLog[2].ok = FALSE
  /\ sendLog[2].buf = NULL
  /\ ret = [entry |-> sendLog[2].entry, value |-> TRUE]
  /\ last_update[Category(sendLog[2].entry)] = sendLog[2].now
  /\ telemetrySeqNumber = sendLog[2].seq + 1

\* C20: in every datagram of the telemetry, motor-pressure, warning and
\* airbrake send paths the first payload field is the tick the call read at
\* entry, the second is the packet counter value, and the value field holds
\* the sensor value the caller passed (for the motor packet: the pressure).
C20_FieldsInOrder ==
  \A i \in 1..Len(sendLog) :
    LET r == sendLog[i] IN
      r.entry # "GPS" =>
        /\ r.ts = r.now
        /\ r.entry # "AB" => r.val = r.arg

(***************************************************************************)
(* Datagram builder: operations                                            *)
(***************************************************************************)
\* telemetry_protocol.h: header (type byte + "EPFL") and header + CRC-16
HEADER_SIZE == 5
TOTAL_DATAGRAM_OVERHEAD == 7
MALLOC_SIZE == 64

\* bounds and inputs of the builder model
MaxWrites == 15
\* payload sizes: 58 declares 65 bytes, one more than the allocation; 65531 and
\* 65535 wrap the uint16_t sum
PayloadSizes == {0, 1, 4, 5, 58, 65531, 65535}
TypeVals == {1}
ByteVals == {255}
Vals32 == {16909060}

\* the byte at offset i of the buffer: indeterminate where nothing was written
ReadByte(buf, i) == IF i >= 0 /\ i < Len(buf) THEN buf[i + 1] ELSE GARBAGE

\* mutant: the check compares the cursor, not the cursor + 1
Write8OffByOne(idx, buf, size, val) ==
  IF idx <= size
    THEN [idx |-> idx + 1, buf |-> Append(buf, val)]
    ELSE [idx |-> idx, buf |-> buf]

\* write8: if (currentIdx + 1 <= datagramSize) *(datagramPtr + currentIdx++) = val
Write8(idx, buf, size, val) ==
  IF idx + 1 <= size
    THEN [idx |-> idx + 1, buf |-> Append(buf, val)]
    ELSE [idx |-> idx, buf |-> buf]

\* write16 / write32 (datagram_builder.h): the same check for 2 and 4 bytes
WriteN(idx, buf, size, bytes) ==
  IF idx + Len(bytes) <= size
    THEN [idx |-> idx + Len(bytes), buf |-> buf \o bytes]
    ELSE [idx |-> idx, buf |-> buf]

\* the four bytes of a 32-bit value, most significant first
Bytes32(v) == <<(v \div 16777216) % 256, (v \div 65536) % 256, (v \div 256) % 256, v % 256>>

\* several write8 calls in a row
RECURSIVE WriteAll8(_, _, _, _)
WriteAll8(idx, buf, size, bytes) ==
  IF bytes = <<>> THEN [idx |-> idx, buf |-> buf]
  ELSE LET r == Write8(idx, buf, size, Head(bytes)) IN
         WriteAll8(r.idx, r.buf, size, Tail(bytes))

\* constructor: datagramSize(payload + overhead) in uint16_t, pvPortMalloc,
\* type byte and 'E' 'P' 'F' 'L', then the CRC over the five bytes before the
\* cursor; on allocation failure currentIdx = datagramSize and return
DatagramBuilder(payloadSize, type, ok) ==
  /\ bState = "none"
  /\ LET size == (payloadSize + TOTAL_DATAGRAM_OVERHEAD) % Two16
         hdr == WriteAll8(0, <<>>, size, <<type, 69, 80, 70, 76>>)
     IN /\ datagramSize' = size
        /\ IF ok
             THEN /\ datagramPtr' = 1
                  /\ currentIdx' = hdr.idx
                  /\ buffer' = hdr.buf
                  /\ datagramCrc' = [i \in 1..HEADER_SIZE |->
                                       ReadByte(hdr.buf, hdr.idx - HEADER_SIZE + i - 1)]
                  /\ badAccess' = IF hdr.idx < HEADER_SIZE THEN {"read_before_buffer"} ELSE {}
             ELSE /\ datagramPtr' = NULL
                  /\ currentIdx' = size
                  /\ UNCHANGED <<buffer, datagramCrc, badAccess>>
  /\ bState' = "open"
  /\ UNCHANGED <<message, nwrites, lastW>>
  /\ UNCHANGED <<telemetryVars, busVars, orderVars>>

\* accesses of offsets [from, to) through datagramPtr that the build does not
\* define: beyond the MALLOC_SIZE bytes pvPortMalloc returned
PastAllocation(from, to, what) ==
  IF datagramPtr # NULL /\ to > from /\ to > MALLOC_SIZE THEN {what} ELSE {}

\* a write8 call of the user of the builder
write8(val) ==
  /\ bState = "open"
  /\ nwrites < MaxWrites
  /\ LET r == Write8(currentIdx, buffer, datagramSize, val) IN
       /\ currentIdx' = r.idx
       /\ buffer' = r.buf
       /\ badAccess' = badAccess \cup PastAllocation(currentIdx, r.idx, "write_past_allocation")
  /\ nwrites' = nwrites + 1
  /\ lastW' = [n |-> 1, at |-> currentIdx]
  /\ UNCHANGED <<bState, datagramSize, datagramPtr, datagramCrc, message>>
  /\ UNCHANGED <<telemetryVars, busVars, orderVars>>

\* a write32 call of the user of the builder
write32(val) ==
  /\ bState = "open"
  /\ nwrites < MaxWrites
  /\ LET r == WriteN(currentIdx, buffer, datagramSize, Bytes32(val)) IN
       /\ currentIdx' = r.idx
       /\ buffer' = r.buf
       /\ badAccess' = badAccess \cup PastAllocation(currentIdx, r.idx, "write_past_allocation")
  /\ nwrites' = nwrites + 1
  /\ lastW' = [n |-> 4, at |-> currentIdx]
  /\ UNCHANGED <<bState, datagramSize, datagramPtr, datagramCrc, message>>
  /\ UNCHANGED <<telemetryVars, busVars, orderVars>>

\* finalizeDatagram: the CRC over the bytes [HEADER_SIZE, currentIdx), then
\* write16 of the finalized CRC, then { .ptr = datagramPtr, .size = datagramSize }
finalizeDatagram ==
  /\ bState = "open"
  /\ LET fed == [i \in 1..(IF currentIdx > HEADER_SIZE THEN currentIdx - HEADER_SIZE ELSE 0) |->
                   ReadByte(buffer, HEADER_SIZE + i - 1)]
         r == WriteN(currentIdx, buffer, datagramSize, <<CRC_HI, CRC_LO>>)
     IN /\ datagramCrc' = datagramCrc \o fed
        /\ currentIdx' = r.idx
        /\ buffer' = r.buf
        /\ badAccess' = badAccess
             \cup (IF datagramPtr = NULL /\ currentIdx > HEADER_SIZE THEN {"null_read"} ELSE {})
             \cup (IF datagramPtr = NULL THEN {"uninit_crc"} ELSE {})
             \cup PastAllocation(HEADER_SIZE, currentIdx, "read_past_allocation")
             \cup PastAllocation(currentIdx, r.idx, "write_past_allocation")
  /\ message' = [ptr |-> datagramPtr, size |-> datagramSize]
  /\ bState' = "final"
  /\ UNCHANGED <<datagramSize, datagramPtr, nwrites, lastW>>
  /\ UNCHANGED <<telemetryVars, busVars, orderVars>>

NextBuilder ==
  \/ \E p \in PayloadSizes, t \in TypeVals, ok \in BOOLEAN : DatagramBuilder(p, t, ok)
  \/ \E v \in ByteVals : write8(v)
  \/ \E v \in Vals32 : write32(v)
  \/ finalizeDatagram

SpecBuilder == Init /\ [][NextBuilder]_vars

(***************************************************************************)
(* Claims about the datagram builder                                       *)
(***************************************************************************)
\* C10: a write that would move the cursor past the declared datagram size
\* writes no byte and leaves the cursor unchanged; the cursor never exceeds
\* the declared size and no byte at an offset >= the declared size is written.
C10_BoundedWrites ==
  /\ [](currentIdx <= datagramSize /\ Len(buffer) <= datagramSize)
  /\ [][(nwrites' = nwrites + 1 /\ currentIdx + lastW'.n > datagramSize) =>
          UNCHANGED <<currentIdx, buffer>>]_vars

\* a write8 on an allocated buffer was dropped with the cursor at the declared size
C10_Witness ==
  /\ bState = "open"
  /\ datagramPtr # NULL
  /\ lastW.n = 1
  /\ lastW.at = datagramSize
  /\ currentIdx = datagramSize
  /\ Len(buffer) = datagramSize
  /\ nwrites = 3

\* C11: after a failed allocation every write is a no-op (no byte is stored,
\* the cursor stays at the declared size) and finalizeDatagram reads nothing
\* through the null pointer and uses no uninitialised CRC value.
C11_AllocFailureSealed ==
  (bState # "none" /\ datagramPtr = NULL) =>
    (buffer = <<>> /\ currentIdx = datagramSize /\ badAccess = {})

\* C12: in every datagram finalizeDatagram returns with size N, whatever was
\* written between construction and finalize, the bytes at offsets N-2 and N-1
\* are the CRC-16 of the bytes at offsets [0, N-2), each fed once, in order.
C12_CrcClosesDatagram ==
  (bState = "final" /\ message.ptr # NULL) =>
    /\ ReadByte(buffer, message.size - 2) = CRC_HI
    /\ ReadByte(buffer, message.size - 1) = CRC_LO
    /\ datagramCrc = [i \in 1..(message.size - 2) |-> ReadByte(buffer, i - 1)]

\* C19: for every payload size the constructor accepts, the declared datagram
\* size never exceeds the MALLOC_SIZE bytes allocated, and no write and no CRC
\* read touches an offset at or beyond the allocation.
C19_WithinAllocation ==
  (bState # "none" /\ datagramPtr # NULL) =>
    /\ datagramSize <= MALLOC_SIZE
    /\ Len(buffer) <= MALLOC_SIZE
    /\ badAccess \cap {"write_past_allocation", "read_past_allocation"} = {}

(***************************************************************************)
(* Message bus: operations                                                 *)
(***************************************************************************)
\* bounds of the bus model: register_object calls, entries of the handler table
MaxObjects == 2
MaxHandlers == 2

\* message kinds (the template argument T) with sizeof(T), and handlers with
\* the kind their parameter type names
Kinds == {"A", "B", "P256", "P257"}
SizeOf(k) == CASE k = "A" -> 1 [] k = "B" -> 2 [] k = "P256" -> 256 [] k = "P257" -> 257
HandlerFns == {"H1", "H2", "H3"}
KindOf(h) == IF h = "H3" THEN "B" ELSE "A"
\* values of the uint8_t length argument of receive
LenVals == {0, 1, 2, 3, 255}

\* identifiers.find(type_hash)
Registered(k) == \E p \in identifiers : p[1] = k
IdOf(k) == (CHOOSE p \in identifiers : p[1] = k)[2]

\* (uint8_t) size
Uint8(n) == n % 256

\* register_object<T>(identifier): sizes above 256 are refused; insert keeps an
\* existing entry of the same type hash; the length table entry is overwritten
register_object(k, id) ==
  /\ nobjects < MaxObjects
  /\ nobjects' = nobjects + 1
  /\ IF SizeOf(k) > 256
       THEN UNCHANGED <<identifiers, safe_cast_reference>>
       ELSE /\ identifiers' = IF Registered(k) THEN identifiers
                              ELSE identifiers \cup {<<k, id>>}
            /\ safe_cast_reference' = [safe_cast_reference EXCEPT ![id] = Uint8(SizeOf(k))]
  /\ misuse' = IF SizeOf(k) > 256 THEN "oversized_kind" ELSE "none"
  /\ outcome' = "void"
  /\ wire' = <<>>
  /\ UNCHANGED <<lock, handlers, invoked, rx, regLog>>
  /\ UNCHANGED <<telemetryVars, builderVars, orderVars>>

\* the sequence with x placed at index pos
InsertAt(seq, pos, x) == SubSeq(seq, 1, pos - 1) \o <<x>> \o SubSeq(seq, pos, Len(seq))

\* an unordered_multimap keeps elements with equal keys adjacent
Grouped(seq) ==
  \A i, j, k \in 1..Len(seq) : (i < j /\ j < k /\ seq[i][1] = seq[k][1]) => seq[j][1] = seq[i][1]

\* where insert(hint, x) may place x in the iteration order: any place that
\* keeps equal keys adjacent (which one is left to the library)
InsertPositions(seq, x) == {pos \in 1..(Len(seq) + 1) : Grouped(InsertAt(seq, pos, x))}

\* register_handler<T>(handler): no-op when T was never registered
register_handler(h) ==
  /\ Len(regLog) < MaxHandlers
  /\ IF Registered(KindOf(h))
       THEN LET x == <<IdOf(KindOf(h)), h>> IN
              /\ \E pos \in InsertPositions(handlers, x) : handlers' = InsertAt(handlers, pos, x)
              /\ regLog' = Append(regLog, x)
       ELSE UNCHANGED <<handlers, regLog>>
  /\ misuse' = IF Registered(KindOf(h)) THEN "none" ELSE "handler_for_unknown_kind"
  /\ outcome' = "void"
  /\ wire' = <<>>
  /\ UNCHANGED <<lock, identifiers, safe_cast_reference, invoked, rx, nobjects>>
  /\ UNCHANGED <<telemetryVars, builderVars, orderVars>>

\* (register_object, register_handler, send and receive all return void and
\* log nothing: the caller gets the same outcome from every call)

\* the constructor returns: lock = true
MessageBus ==
  /\ lock = FALSE
  /\ lock' = TRUE
  /\ UNCHANGED <<identifiers, safe_cast_reference, handlers, invoked, rx, wire, regLog, nobjects,
                 misuse, outcome>>
  /\ UNCHANGED <<telemetryVars, builderVars, orderVars>>

\* send<T>(message): write(&id, 1); write(message, sizeof(T)); nothing when T
\* is not registered
send(k) ==
  /\ lock = TRUE
  /\ IF Registered(k)
       THEN wire' = <<IdOf(k), SizeOf(k)>>
       ELSE wire' = <<>>
  /\ misuse' = IF Registered(k) THEN "none" ELSE "send_of_unknown_kind"
  /\ outcome' = "void"
  /\ UNCHANGED <<lock, identifiers, safe_cast_reference, handlers, invoked, rx, regLog, nobjects>>
  /\ UNCHANGED <<telemetryVars, builderVars, orderVars>>

\* handlers.find(packet_id): the first element with that key, or end()
Find(seq, id) ==
  IF \E i \in 1..Len(seq) : seq[i][1] = id
    THEN CHOOSE i \in 1..Len(seq) : seq[i][1] = id /\ \A j \in 1..(i - 1) : seq[j][1] # id
    ELSE Len(seq) + 1

\* mutant: the identifier byte is not subtracted from the length
LengthMatchesOffByOne(len, id) == len = safe_cast_reference[id]

\* the length check: length - 1 != safe_cast_reference[packet_id] returns
LengthMatches(len, id) == len - 1 = safe_cast_reference[id]

\* the dispatch loop: for (it = handlers.find(packet_id); it != handlers.end(); it++)
Dispatched(id) == SubSeq(handlers, Find(handlers, id), Len(handlers))

\* receive(pointer, length)
receive(id, len) ==
  /\ lock = TRUE
  /\ invoked' = IF len > 0 /\ LengthMatches(len, id) THEN Dispatched(id) ELSE <<>>
  /\ rx' = [id |-> id, len |-> len, expected |-> safe_cast_reference[id],
            registered |-> SelectSeq(regLog, LAMBDA x : x[1] = id)]
  /\ misuse' = "none"
  /\ outcome' = "void"
  /\ wire' = <<>>
  /\ UNCHANGED <<lock, identifiers, safe_cast_reference, handlers, regLog, nobjects>>
  /\ UNCHANGED <<telemetryVars, builderVars, orderVars>>

NextBus ==
  \/ \E k \in Kinds, id \in IdVals : register_object(k, id)
  \/ \E h \in HandlerFns : register_handler(h)
  \/ MessageBus
  \/ \E k \in Kinds : send(k)
  \/ \E id \in IdVals, len \in LenVals : receive(id, len)

\* the bus under construction, with any initial content of the length table
InitWithBus ==
  /\ InitTelemetry
  /\ InitBuilder
  /\ InitBus
  /\ InitOrder

SpecBus == InitWithBus /\ [][NextBus]_vars

(***************************************************************************)
(* Claims about the message bus                                            *)
(***************************************************************************)
\* C5: receive never invokes a handler registered for an identifier other
\* than the one in the first byte of the received buffer.
C5_OnlyOwnHandlers ==
  \A i \in 1..Len(invoked) : invoked[i][1] = rx.id

\* C6: with H1 and then H2 registered for identifier X, a receive of a buffer
\* for X of the registered length invokes H1 and then H2, each exactly once.
C6_RegistrationOrder ==
  (rx.len > 0 /\ rx.len - 1 = rx.expected /\ Len(rx.registered) = 2) =>
    SelectSeq(invoked, LAMBDA x : x[1] = rx.id) = rx.registered

C8_UniqueIdentifiers ==
  \A p, q \in identifiers :
    /\ p[1] # q[1] => p[2] # q[2]
    /\ p[1] = q[1] => p[2] = q[2]

\* C15: register_object of a kind above 256 bytes, register_handler for a
\* kind never registered and send of a kind never registered each give the
\* caller an error outcome, change no bus table and write nothing to the
\* transport.
C15_ConfigErrorsSurfaced ==
  /\ [](misuse # "none" => outcome = "error")
  /\ [][misuse' # "none" =>
          (wire' = <<>> /\ UNCHANGED <<identifiers, safe_cast_reference, handlers>>)]_vars

\* C17: for every registered kind (sizeof 1..256) that is the only kind of its
\* identifier, the length table holds sizeof(Kind) for the identifier, and the
\* frame send writes for it (1 + sizeof(Kind) bytes) has an 8-bit length that
\* passes the length check of receive.
C17_LengthTableHoldsSize ==
  \A p \in identifiers :
    (\A q \in identifiers : q[2] = p[2] => q = p) =>
      /\ safe_cast_reference[p[2]] = SizeOf(p[1])
      /\ \E len \in 0..255 : len = 1 + SizeOf(p[1]) /\ LengthMatches(len, p[2])

\* C9: once the constructor has set lock, no call changes the kind-to-identifier
\* map, the identifier-to-length table or the handler table.
C9_LockedRegistryFrozen ==
  [][lock => UNCHANGED <<identifiers, safe_cast_reference, handlers>>]_vars

(***************************************************************************)
(* Order-packet decoder                                                    *)
(***************************************************************************)
\* the values RX_Order_Packet[8] is compared with (their numbers are in a
\* header outside src/), and any other byte
OrderBytes ==
  {"STATE_IDLE", "STATE_OPEN_FILL_VALVE", "STATE_CLOSE_FILL_VALVE",
   "STATE_OPEN_PURGE_VALVE", "STATE_DISCONNECT_HOSE", "other"}

\* bytes 0..3 of the packet (the time stamp, most significant first)
TsByte0 == {0, 1}
TsByte1 == {0, 1}
TsByte2 == {0, 255}
TsByte3 == {0, 255}

\* RX[3] | (RX[2] << 8) | (RX[1] << 16) | (RX[0] << 24)
DecodeTs(b0, b1, b2, b3) == b3 + b2 * 256 + b1 * 65536 + b0 * 16777216

\* the cases of the switch, in source order: <<label, state assigned>>
OrderCases ==
  << <<"STATE_OPEN_FILL_VALVE", "STATE_OPEN_FILL_VALVE">>,
     <<"STATE_CLOSE_FILL_VALVE", "STATE_OPEN_PURGE_VALVE">>,
     <<"STATE_OPEN_FILL_VALVE", "STATE_OPEN_PURGE_VALVE">>,
     <<"STATE_DISCONNECT_HOSE", "STATE_DISCONNECT_HOSE">> >>

\* the cases a command byte selects; the label STATE_OPEN_FILL_VALVE is
\* written twice, and which of its two cases a build takes is not defined
CasesOf(cmd) == {i \in DOMAIN OrderCases : OrderCases[i][1] = cmd}

\* telemetry_receiveOrderPacket: the switch on RX_Order_Packet[8] (no default
\* case), then can_setFrame (current_state, DATA_ID_ORDER, ts)
telemetry_receiveOrderPacket(b0, b1, b2, b3, cmd) ==
  /\ IF CasesOf(cmd) = {}
       THEN UNCHANGED <<current_state, decoded>>
       ELSE \E i \in CasesOf(cmd) :
              /\ current_state' = OrderCases[i][2]
              /\ decoded' = decoded \cup {<<cmd, OrderCases[i][2]>>}
  /\ order' = cmd
  /\ canFrame' = [value |-> current_state', id |-> "DATA_ID_ORDER",
                  ts |-> DecodeTs(b0, b1, b2, b3)]
  /\ UNCHANGED <<telemetryVars, builderVars, busVars>>

NextOrder ==
  \E b0 \in TsByte0, b1 \in TsByte1, b2 \in TsByte2, b3 \in TsByte3, cmd \in OrderBytes :
    telemetry_receiveOrderPacket(b0, b1, b2, b3, cmd)

SpecOrder == Init /\ [][NextOrder]_vars

(***************************************************************************)
(* Claims about the order-packet decoder                                   *)
(***************************************************************************)
\* the target states the decoder declares
C16_Targets ==
  {"STATE_OPEN_FILL_VALVE", "STATE_CLOSE_FILL_VALVE", "STATE_OPEN_PURGE_VALVE",
   "STATE_DISCONNECT_HOSE"}

\* C16: every recognised command byte is handled by exactly one case and
\* results in exactly one target state, different command bytes result in
\* different target states, and every declared target state is the result of
\* some command byte.
C16_OneCommandOneState ==
  /\ order # "none" => Cardinality(CasesOf(order)) <= 1
  /\ \A p, q \in decoded : (p[1] = q[1]) <=> (p[2] = q[2])
  /\ (\A i \in DOMAIN OrderCases : \E p \in decoded : p[1] = OrderCases[i][1]) =>
       C16_Targets \subseteq {p[2] : p \in decoded}

====
